---- MODULE Spec2Model ----
(***************************************************************************)
(* Brute-force 0/1 knapsack (src/mp1/src/main.rs): the BitString subset    *)
(* encoding, Knapsack::solve's Gray-code walk, and main's parallel trials. *)
(*                                                                         *)
(* A u64 is modelled by an integer.  The code's arithmetic never leaves    *)
(* 0 .. 2^64-1 on the inputs enumerated here, except where stated: a       *)
(* wrapped subtraction (release build) is kept as the negative integer     *)
(* congruent to it modulo 2^64, and a shift by 64 or more is masked.       *)
(***************************************************************************)
EXTENDS Integers, Sequences, FiniteSets, TLC

\* ------------------------------------------------------------------ bounds
MaxItems == 2
MaxWeight == 1
MaxValue == 1
MaxCapacity == 2
MaxUpdateFreq == 2
MaxTrials == 2
MaxElapsed == 2

\* Width of BitString.data and of every counter of solve (u64).
WordBits == 64

ItemCounts == 0..MaxItems
\* The item counts of SpecWide: the small ones and the encoding width itself.
ItemCountsWide == ItemCounts \cup {WordBits}
Weights == 0..MaxWeight
Values == 0..MaxValue
Capacities == 0..MaxCapacity
UpdateFreqs == 0..MaxUpdateFreq

\* ------------------------------------------------------ u64 bit operations
RECURSIVE BitAnd(_, _)
BitAnd(a, b) ==
    IF a = 0 \/ b = 0 THEN 0
    ELSE (IF a % 2 = 1 /\ b % 2 = 1 THEN 1 ELSE 0) + 2 * BitAnd(a \div 2, b \div 2)

RECURSIVE BitXor(_, _)
BitXor(a, b) ==
    IF a = 0 THEN b
    ELSE IF b = 0 THEN a
    ELSE ((a + b) % 2) + 2 * BitXor(a \div 2, b \div 2)

RECURSIVE BitOr(_, _)
BitOr(a, b) ==
    IF a = 0 THEN b
    ELSE IF b = 0 THEN a
    ELSE (IF a % 2 = 1 \/ b % 2 = 1 THEN 1 ELSE 0) + 2 * BitOr(a \div 2, b \div 2)

\* `1 << index` on a u64 without overflow checks: the shift amount is masked
\* to the word width.  With overflow checks index >= 64 panics (ShlOverflows).
ShlOne(index) == 2 ^ (index % WordBits)

ShlOverflows(index) == index >= WordBits

\* u64::trailing_zeros: 64 for 0.
RECURSIVE trailing_zeros(_)
trailing_zeros(x) ==
    IF x = 0 THEN WordBits
    ELSE IF x % 2 = 1 THEN 0
    ELSE 1 + trailing_zeros(x \div 2)

\* ------------------------------------------------------------- BitString
\* The mask taken for the index itself, the shift forgotten.
is_bit_set_unshifted(data, index) == BitAnd(data, index) # 0

is_bit_set(data, index) == BitAnd(data, ShlOne(index)) # 0

\* trailing_ones in place of trailing_zeros.
RECURSIVE trailing_ones(_)
trailing_ones(x) == IF x % 2 = 0 THEN 0 ELSE 1 + trailing_ones(x \div 2)

least_significant_bit_ones(data) == trailing_ones(data)

least_significant_bit(data) == trailing_zeros(data)

\* |= in place of ^=.
flip_bit_sets(data, index) == BitOr(data, ShlOne(index))

flip_bit(data, index) == BitXor(data, ShlOne(index))

\* ------------------------------------------------------------- u64 order
\* a > b and a < b on u64 values; a negative integer stands for 2^64 + it.
GtU64(a, b) == IF (a < 0) = (b < 0) THEN a > b ELSE a < 0

LtU64(a, b) == GtU64(b, a)

\* -------------------------------------------------------------- Knapsack
\* Knapsack::new: both vectors zero-filled, indexed 0 .. total_items-1.
KnapsackNew(total_items) ==
    [weights |-> [j \in 0..(total_items - 1) |-> 0],
     values |-> [j \in 0..(total_items - 1) |-> 0],
     total_items |-> total_items]

\* The vectors initialize_values can leave in a Knapsack of n items when each
\* draw comes from `range`.  Above MaxItems the enumeration is cut down to the
\* vectors whose entries are all equal.
Draws(n, range) ==
    IF n <= MaxItems THEN [0..(n - 1) -> range]
    ELSE {[j \in 0..(n - 1) |-> x] : x \in range}

\* -------------------------------------------------- Knapsack::solve, frame
NoPanic == ""
ShiftOverflow == "attempt to shift left with overflow"
DivideByZero == "attempt to divide by zero"
SubtractOverflow == "attempt to subtract with overflow"
IndexOutOfBounds == "index out of bounds"

\* The locals of solve; `i` is the loop counter's next value, `update_freq`
\* the shadowing local of line 127, `pb_position` the progress bar's position.
Frame(n, step, panic) ==
    [bit_str |-> 0, max_value |-> 0, best_subset |-> 0,
     current_weight |-> 0, current_value |-> 0,
     n |-> n, update_freq |-> step, next_update |-> step,
     i |-> 1, pb_position |-> 0, panic |-> panic]

\* (1 << total_items) - 1 taken for the exclusive end of the range.
LoopBoundOffByOne(total_items) == ShlOne(total_items) - 1

\* let n = 1 << self.total_items  (without overflow checks)

LoopBound(total_items) == ShlOne(total_items)

\* Lines 109-128: the state at the head of the loop, or the panic.
EnterFrame(k, update_freq, overflow_checks) ==
    IF ShlOverflows(k.total_items) /\ overflow_checks
    THEN Frame(0, 0, ShiftOverflow)
    ELSE IF update_freq = 0
    THEN Frame(LoopBound(k.total_items), 0, DivideByZero)
    ELSE Frame(LoopBound(k.total_items),
               LoopBound(k.total_items) \div update_freq, NoPanic)

\* >= in place of >.
InfeasibleOffByOne(current_weight, knapsack_capacity) ==
    ~LtU64(current_weight, knapsack_capacity)

\* The capacity check left out.
InfeasibleNever(current_weight, knapsack_capacity) == FALSE

\* if current_weight > knapsack_capacity { continue }

Infeasible(current_weight, knapsack_capacity) ==
    GtU64(current_weight, knapsack_capacity)

\* <= in place of <.
ImprovesOrTies(max_value, current_value) == ~GtU64(max_value, current_value)

\* if max_value < current_value

Improves(max_value, current_value) == LtU64(max_value, current_value)

\* Lines 131-155: one iteration of the loop for counter f.i.
StepFrame(k, knapsack_capacity, overflow_checks, f) ==
    LET lsb == least_significant_bit(f.i)
        bit_str == flip_bit(f.bit_str, lsb)
        hit == f.i = f.next_update
        progressed == [f EXCEPT !.bit_str = bit_str,
                                !.pb_position = IF hit THEN f.i ELSE @,
                                !.next_update = IF hit THEN @ + f.update_freq ELSE @]
    IN  IF lsb >= k.total_items
        THEN [progressed EXCEPT !.panic = IndexOutOfBounds]
        ELSE
        LET added == is_bit_set(bit_str, lsb)
            underflow == ~added /\ (LtU64(f.current_weight, k.weights[lsb])
                                    \/ LtU64(f.current_value, k.values[lsb]))
            current_weight == IF added THEN f.current_weight + k.weights[lsb]
                              ELSE f.current_weight - k.weights[lsb]
            current_value == IF added THEN f.current_value + k.values[lsb]
                             ELSE f.current_value - k.values[lsb]
            better == ~Infeasible(current_weight, knapsack_capacity)
                      /\ Improves(f.max_value, current_value)
        IN  IF underflow /\ overflow_checks
            THEN [progressed EXCEPT !.panic = SubtractOverflow]
            ELSE [progressed EXCEPT
                    !.current_weight = current_weight,
                    !.current_value = current_value,
                    !.max_value = IF better THEN current_value ELSE @,
                    !.best_subset = IF better THEN bit_str ELSE @,
                    !.i = f.i + 1]

\* for i in 1..n
LoopDone(f) == f.i >= f.n

\* Lines 158-160: pb.finish(), return (best_subset, max_value).
FinishFrame(f) == [f EXCEPT !.pb_position = f.n]

\* The whole of solve: the frame it returns from, or the frame it panics in.
RECURSIVE RunLoop(_, _, _, _)
RunLoop(k, knapsack_capacity, overflow_checks, f) ==
    IF f.panic # NoPanic THEN f
    ELSE IF LoopDone(f) THEN FinishFrame(f)
    ELSE RunLoop(k, knapsack_capacity, overflow_checks,
                 StepFrame(k, knapsack_capacity, overflow_checks, f))

solve(k, knapsack_capacity, update_freq, overflow_checks) ==
    RunLoop(k, knapsack_capacity, overflow_checks,
            EnterFrame(k, update_freq, overflow_checks))

\* ------------------------------------------------------------------ state
VARIABLES
    overflow_checks,    \* build profile: TRUE debug, FALSE release
    knapsack,           \* the Knapsack solve runs on
    knapsack_capacity,  \* solve's argument
    update_freq,        \* solve's argument
    frame,              \* solve's locals
    pc,                 \* "new", "initialized", "loop", "returned", "panicked"
    visited,            \* the values bit_str has taken, one per loop step
    result,             \* the pair solve returned
    args,               \* main: the parsed Args
    trial,              \* main: each trial task's position and locals
    trial_results,      \* main: the shared Vec of elapsed times
    results_lock,       \* main: holder of trial_results' Mutex
    print_lock,         \* main: holder of print_lock
    stdout,             \* main: the lines printed, in order
    main_pc,            \* main: "running", "joined", "exited", "panicked"
    average             \* main: the mean main prints

solver_vars == <<overflow_checks, knapsack, knapsack_capacity, update_freq,
                 frame, pc, visited, result>>

main_vars == <<args, trial, trial_results, results_lock, print_lock, stdout,
               main_pc, average>>

vars == <<solver_vars, main_vars>>

\* A Mutex holds the tuple naming its holder, <<>> when nobody holds it.
Unlocked == <<>>

HeldBy(t) == <<t>>

\* Who printed a line of stdout.
TrialTask(t) == <<"trial", t>>

MainTask == <<"main">>
NoAverage == <<>>

\* The state of main's variables while solve is exercised on its own.
MainIdle ==
    /\ args = <<>>
    /\ trial = <<>>
    /\ trial_results = <<>>
    /\ results_lock = Unlocked
    /\ print_lock = Unlocked
    /\ stdout = <<>>
    /\ main_pc = "idle"
    /\ average = NoAverage

NoResult == <<>>

InitSolver(counts) ==
    /\ overflow_checks \in BOOLEAN
    /\ \E total_items \in counts : knapsack = KnapsackNew(total_items)
    /\ knapsack_capacity \in Capacities
    /\ update_freq \in UpdateFreqs
    /\ frame = Frame(0, 0, NoPanic)
    /\ pc = "new"
    /\ visited = <<>>
    /\ result = NoResult
    /\ MainIdle

\* Knapsack::initialize_values(weight_range, value_range)
InitializeValues ==
    /\ pc = "new"
    /\ \E w \in Draws(knapsack.total_items, Weights),
          v \in Draws(knapsack.total_items, Values) :
          knapsack' = [knapsack EXCEPT !.weights = w, !.values = v]
    /\ pc' = "initialized"
    /\ UNCHANGED <<overflow_checks, knapsack_capacity, update_freq, frame,
                   visited, result, main_vars>>

\* solve, lines 109-128
SolveEnter ==
    /\ pc = "initialized"
    /\ frame' = EnterFrame(knapsack, update_freq, overflow_checks)
    /\ pc' = IF frame'.panic # NoPanic THEN "panicked" ELSE "loop"
    /\ UNCHANGED <<overflow_checks, knapsack, knapsack_capacity, update_freq,
                   visited, result, main_vars>>

\* solve, lines 130-156, one iteration
SolveStep ==
    /\ pc = "loop"
    /\ ~LoopDone(frame)
    /\ frame' = StepFrame(knapsack, knapsack_capacity, overflow_checks, frame)
    /\ visited' = Append(visited, frame'.bit_str)
    /\ pc' = IF frame'.panic # NoPanic THEN "panicked" ELSE "loop"
    /\ UNCHANGED <<overflow_checks, knapsack, knapsack_capacity, update_freq,
                   result, main_vars>>

\* solve, lines 158-160
SolveReturn ==
    /\ pc = "loop"
    /\ LoopDone(frame)
    /\ frame' = FinishFrame(frame)
    /\ result' = <<frame.best_subset, frame.max_value>>
    /\ pc' = "returned"
    /\ UNCHANGED <<overflow_checks, knapsack, knapsack_capacity, update_freq,
                   visited, main_vars>>

Init == InitSolver(ItemCounts)

Next == InitializeValues \/ SolveEnter \/ SolveStep \/ SolveReturn

Spec == Init /\ [][Next]_vars

InitWide == InitSolver(ItemCountsWide)

SpecWide == InitWide /\ [][Next]_vars

\* ------------------------------------------------------------------- main
\* The Args the trials are checked on: every trial count up to MaxTrials, an
\* update_freq that panics and one that does not.
MainArgs ==
    {[size |-> sz, trials |-> t, update_freq |-> uf,
      weight_min |-> 1, weight_max |-> 1, value_min |-> 1, value_max |-> 1,
      knapsack_capacity |-> 1] :
        sz \in {2}, t \in 0..MaxTrials, uf \in {0, 1}}

Trials == 0..(args.trials - 1)

Elapsed == 1..MaxElapsed

\* The println! calls of the closure, lines 229-235, in order.
PrintedLines ==
    <<"trial header", "weights and values", "done", "best value",
      "best subset", "separator", "blank">>

TrialStart ==
    [pc |-> "start", knapsack |-> KnapsackNew(0), subset |-> 0, value |-> 0,
     elapsed |-> 0, line |-> 0]

InitMain ==
    /\ overflow_checks \in BOOLEAN
    /\ args \in MainArgs
    /\ trial = [t \in Trials |-> TrialStart]
    /\ trial_results = <<>>
    /\ results_lock = Unlocked
    /\ print_lock = Unlocked
    /\ stdout = <<>>
    /\ main_pc = "running"
    /\ average = NoAverage
    /\ knapsack = KnapsackNew(0)
    /\ knapsack_capacity = 0
    /\ update_freq = 0
    /\ frame = Frame(0, 0, NoPanic)
    /\ pc = "idle"
    /\ visited = <<>>
    /\ result = NoResult

\* Mutex::lock: blocks until nobody holds the lock.
MutexFree(lock) == lock = Unlocked

\* Lines 214-219: Knapsack::new and initialize_values.
TrialInitialize(t) ==
    /\ trial[t].pc = "start"
    /\ \E w \in Draws(args.size, args.weight_min..args.weight_max),
          v \in Draws(args.size, args.value_min..args.value_max) :
          trial' = [trial EXCEPT
                      ![t].knapsack = [KnapsackNew(args.size) EXCEPT
                                          !.weights = w, !.values = v],
                      ![t].pc = "initialized"]
    /\ UNCHANGED <<solver_vars, args, trial_results, results_lock, print_lock,
                   stdout, main_pc, average>>

\* Lines 221-223: the timed call of solve; a panic of solve unwinds the task.
TrialSolve(t) ==
    /\ trial[t].pc = "initialized"
    /\ LET f == solve(trial[t].knapsack, args.knapsack_capacity,
                      args.update_freq, overflow_checks)
       IN  IF f.panic # NoPanic
           THEN trial' = [trial EXCEPT ![t].pc = "panicked"]
           ELSE \E e \in Elapsed :
                   trial' = [trial EXCEPT ![t].subset = f.best_subset,
                                          ![t].value = f.max_value,
                                          ![t].elapsed = e,
                                          ![t].pc = "solved"]
    /\ UNCHANGED <<solver_vars, args, trial_results, results_lock, print_lock,
                   stdout, main_pc, average>>

\* Line 225: trial_results.lock()
TrialResultsLock(t) ==
    /\ trial[t].pc = "solved"
    /\ MutexFree(results_lock)
    /\ results_lock' = HeldBy(t)
    /\ trial' = [trial EXCEPT ![t].pc = "pushing"]
    /\ UNCHANGED <<solver_vars, args, trial_results, print_lock, stdout,
                   main_pc, average>>

\* Line 225: .push(elapsed); the guard is dropped at the end of the statement.
TrialPush(t) ==
    /\ trial[t].pc = "pushing"
    /\ trial_results' = Append(trial_results, trial[t].elapsed)
    /\ results_lock' = Unlocked
    /\ trial' = [trial EXCEPT ![t].pc = "pushed"]
    /\ UNCHANGED <<solver_vars, args, print_lock, stdout, main_pc, average>>

\* The summary printed without taking print_lock.
PrintLockFreeAlways(lock) == TRUE

PrintLockFree(lock) == MutexFree(lock)

\* Line 228: let _print_guard = print_lock.lock().unwrap()
TrialPrintLock(t) ==
    /\ trial[t].pc = "pushed"
    /\ PrintLockFree(print_lock)
    /\ print_lock' = HeldBy(t)
    /\ trial' = [trial EXCEPT ![t].pc = "printing", ![t].line = 1]
    /\ UNCHANGED <<solver_vars, args, trial_results, results_lock, stdout,
                   main_pc, average>>

\* Lines 229-235: one println! of the summary.
TrialPrintln(t) ==
    /\ trial[t].pc = "printing"
    /\ trial[t].line <= Len(PrintedLines)
    /\ stdout' = Append(stdout, [by |-> TrialTask(t), line |-> PrintedLines[trial[t].line]])
    /\ trial' = [trial EXCEPT ![t].line = @ + 1]
    /\ UNCHANGED <<solver_vars, args, trial_results, results_lock, print_lock,
                   main_pc, average>>

\* Line 236: the closure ends, _print_guard is dropped.
TrialEnd(t) ==
    /\ trial[t].pc = "printing"
    /\ trial[t].line > Len(PrintedLines)
    /\ print_lock' = Unlocked
    /\ trial' = [trial EXCEPT ![t].pc = "done"]
    /\ UNCHANGED <<solver_vars, args, trial_results, results_lock, stdout,
                   main_pc, average>>

\* The mean taken without waiting for the tasks.
JoinReadyAlways == TRUE

\* for_each returns once every task has ended.

JoinReady == \A t \in Trials : trial[t].pc \in {"done", "panicked"}

\* Line 213/236: for_each returns, or resumes the panic of a task.
MainJoin ==
    /\ main_pc = "running"
    /\ JoinReady
    /\ main_pc' = IF \E t \in Trials : trial[t].pc = "panicked"
                  THEN "panicked" ELSE "joined"
    /\ UNCHANGED <<solver_vars, args, trial, trial_results, results_lock,
                   print_lock, stdout, average>>

RECURSIVE SeqSum(_)
SeqSum(seq) == IF seq = <<>> THEN 0 ELSE Head(seq) + SeqSum(Tail(seq))

\* Lines 238-239: the mean, kept as the dividend and the divisor of the f64
\* division (0/0 prints NaN).
MainAverage ==
    /\ main_pc = "joined"
    /\ MutexFree(results_lock)
    /\ average' = [sum |-> SeqSum(trial_results), count |-> args.trials]
    /\ stdout' = Append(stdout, [by |-> MainTask, line |-> "average"])
    /\ main_pc' = "exited"
    /\ UNCHANGED <<solver_vars, args, trial, trial_results, results_lock,
                   print_lock>>

NextMain ==
    \/ \E t \in Trials :
          \/ TrialInitialize(t)
          \/ TrialSolve(t)
          \/ TrialResultsLock(t)
          \/ TrialPush(t)
          \/ TrialPrintLock(t)
          \/ TrialPrintln(t)
          \/ TrialEnd(t)
    \/ MainJoin
    \/ MainAverage

SpecMain == InitMain /\ [][NextMain]_vars

\* ============================================================ properties
\* Reference definitions: a subset's items and totals by full summation,
\* written without the BitString operations.
RECURSIVE BitsFrom(_, _)
BitsFrom(s, j) ==
    IF s <= 0 THEN {}
    ELSE (IF s % 2 = 1 THEN {j} ELSE {}) \cup BitsFrom(s \div 2, j + 1)

Members(s) == BitsFrom(s, 0)

RECURSIVE SumOver(_, _)
SumOver(f, S) ==
    IF S = {} THEN 0
    ELSE LET j == CHOOSE x \in S : TRUE IN f[j] + SumOver(f, S \ {j})

Items(k) == 0..(k.total_items - 1)

SubsetWeight(k, s) == SumOver(k.weights, Members(s) \cap Items(k))

SubsetValue(k, s) == SumOver(k.values, Members(s) \cap Items(k))

AllSubsets(k) == 0..(2 ^ k.total_items - 1)

NonEmptySubsets(k) == 1..(2 ^ k.total_items - 1)

Feasible(k, cap, s) == SubsetWeight(k, s) <= cap

FeasibleSubsets(k, cap) == {s \in AllSubsets(k) : Feasible(k, cap, s)}

\* The maximum value of a feasible subset, by exhaustive search.
BestFeasibleValue(k, cap) ==
    CHOOSE v \in {SubsetValue(k, s) : s \in FeasibleSubsets(k, cap)} :
        \A s \in FeasibleSubsets(k, cap) : SubsetValue(k, s) <= v

\* The feasible non-empty subsets attaining the maximum feasible value.
Optima(k, cap) ==
    {s \in NonEmptySubsets(k) :
        Feasible(k, cap, s) /\ SubsetValue(k, s) = BestFeasibleValue(k, cap)}

\* The first position of `seq` holding a member of S (0 if none).
FirstIn(seq, S) ==
    IF \E p \in 1..Len(seq) : seq[p] \in S
    THEN CHOOSE p \in 1..Len(seq) :
            seq[p] \in S /\ \A q \in 1..(p - 1) : seq[q] \notin S
    ELSE 0

LowestSetBit(x) == CHOOSE j \in Members(x) : \A m \in Members(x) : j <= m

DiffBits(a, b) == (Members(a) \ Members(b)) \cup (Members(b) \ Members(a))

Running == pc \in {"loop", "returned"}

\* C1: the pair solve returns is a feasible subset of the n items, carries
\* its own total value, and no feasible subset of the items is worth more.
C1_ReturnsOptimum ==
    pc = "returned" =>
        /\ Members(result[1]) \subseteq Items(knapsack)
        /\ SubsetWeight(knapsack, result[1]) <= knapsack_capacity
        /\ SubsetValue(knapsack, result[1]) = result[2]
        /\ \A s \in AllSubsets(knapsack) :
              Feasible(knapsack, knapsack_capacity, s)
                  => SubsetValue(knapsack, s) <= result[2]

C1_Witness ==
    /\ pc = "returned"
    /\ knapsack.total_items >= 2
    /\ result[2] > 0
    /\ \E s \in AllSubsets(knapsack) :
          /\ ~Feasible(knapsack, knapsack_capacity, s)
          /\ SubsetValue(knapsack, s) > result[2]

\* C2: when no non-empty subset fits the capacity (no items at all, or every
\* item too heavy), solve returns the zero subset with value 0.
C2_InfeasibleReturnsZero ==
    (/\ pc = "returned"
     /\ \A s \in NonEmptySubsets(knapsack) :
           ~Feasible(knapsack, knapsack_capacity, s))
        => result = <<0, 0>>

C2_Witness ==
    /\ pc = "returned"
    /\ knapsack.total_items >= 2
    /\ \A j \in Items(knapsack) :
          knapsack.weights[j] > knapsack_capacity /\ knapsack.values[j] > 0
    /\ result = <<0, 0>>

\* C3 as stated: when two or more feasible non-empty subsets attain the
\* maximum feasible value, solve returns the first of them in visiting order.
C3_FirstOptimumReturned ==
    (/\ pc = "returned"
     /\ Cardinality(Optima(knapsack, knapsack_capacity)) >= 2)
        => /\ FirstIn(visited, Optima(knapsack, knapsack_capacity)) > 0
           /\ result[1] =
                visited[FirstIn(visited, Optima(knapsack, knapsack_capacity))]

\* The feasible subsets visited so far that are worth the most among them.
BestVisited ==
    LET feasible == {p \in 1..Len(visited) :
                        Feasible(knapsack, knapsack_capacity, visited[p])}
    IN  {visited[p] : p \in {q \in feasible :
            \A r \in feasible : SubsetValue(knapsack, visited[r])
                                    <= SubsetValue(knapsack, visited[q])}}

\* C3 amended: at every step best_subset is the first visited feasible subset
\* of the greatest value seen so far when that value is positive (a later
\* subset of equal value never replaces it), and the empty subset when it is
\* 0; solve returns that best_subset.
C3_FirstPositiveOptimumKept ==
    Running =>
        /\ frame.best_subset =
              IF \E s \in BestVisited : SubsetValue(knapsack, s) > 0
              THEN visited[FirstIn(visited, BestVisited)]
              ELSE 0
        /\ pc = "returned" => result[1] = frame.best_subset

C3_Witness ==
    /\ pc = "returned"
    /\ Cardinality(Optima(knapsack, knapsack_capacity)) >= 2
    /\ result[2] > 0
    /\ result[1] = visited[FirstIn(visited, Optima(knapsack, knapsack_capacity))]
    /\ \E p \in 1..Len(visited) :
          /\ p > FirstIn(visited, Optima(knapsack, knapsack_capacity))
          /\ visited[p] \in Optima(knapsack, knapsack_capacity)

\* C4: whatever update_freq is, solve does not panic on it and returns the
\* pair it returns for every other update_freq.
C4_ProgressNeverMatters ==
    /\ ~(pc = "panicked" /\ frame.panic = DivideByZero)
    /\ pc = "returned" =>
          \A uf \in UpdateFreqs :
              LET g == solve(knapsack, knapsack_capacity, uf, overflow_checks)
              IN  g.panic = NoPanic /\ <<g.best_subset, g.max_value>> = result

\* x = 2^e, without forming 2^e.
RECURSIVE IsTwoToThe(_, _)
IsTwoToThe(x, e) ==
    IF e = 0 THEN x = 1
    ELSE x > 0 /\ x % 2 = 0 /\ IsTwoToThe(x \div 2, e - 1)

C8_RunningTotalsExact ==
    /\ ~(pc = "panicked" /\ frame.panic = SubtractOverflow)
    /\ Running =>
          /\ Members(frame.bit_str) \subseteq Items(knapsack)
          /\ frame.current_weight = SubsetWeight(knapsack, frame.bit_str)
          /\ frame.current_value = SubsetValue(knapsack, frame.bit_str)

C8_Witness ==
    /\ pc = "loop"
    /\ Len(visited) = 3
    /\ frame.bit_str = 2
    /\ frame.current_weight > knapsack_capacity
    /\ frame.current_value > 0
    /\ knapsack.weights[0] > 0

\* C9: the subsets visited are pairwise different non-empty subsets of the
\* items, and over a full run they are all 2^n - 1 of them.
C9_EachSubsetOnce ==
    Running =>
        /\ \A p \in 1..Len(visited) : visited[p] \in NonEmptySubsets(knapsack)
        /\ \A p, q \in 1..Len(visited) : visited[p] = visited[q] => p = q
        /\ pc = "returned" =>
              {visited[p] : p \in 1..Len(visited)} = NonEmptySubsets(knapsack)

C9_Witness ==
    /\ pc = "returned"
    /\ knapsack.total_items = MaxItems
    /\ Len(visited) = 2 ^ MaxItems - 1

\* C10: each visited subset differs from the one before it (the empty subset
\* before the first) in exactly the lowest set bit of the step number, which
\* is an item index.
C10_OneBitPerStep ==
    /\ ~(pc = "panicked" /\ frame.panic = IndexOutOfBounds)
    /\ \A p \in 1..Len(visited) :
          /\ DiffBits(IF p = 1 THEN 0 ELSE visited[p - 1], visited[p])
                = {LowestSetBit(p)}
          /\ LowestSetBit(p) < knapsack.total_items

C10_Witness ==
    /\ pc = "loop"
    /\ Len(visited) = 2 ^ MaxItems - 1
    /\ LowestSetBit(Len(visited)) = 0
    /\ LowestSetBit(Len(visited) - 1) > 0

Printing == {t \in Trials : trial[t].pc = "printing"}

\* C6: at most one trial is inside its printing section, and the lines the
\* trials printed form one uninterrupted block per trial, in the order of
\* PrintedLines.
C6_SummariesNeverInterleave ==
    main_pc # "idle" =>
        /\ Cardinality(Printing) <= 1
        /\ \A p, r \in 1..Len(stdout) :
              (p < r /\ stdout[p].by = stdout[r].by)
                  => stdout[p + 1].by = stdout[p].by
        /\ \A p \in 1..Len(stdout) :
              stdout[p].by # MainTask =>
                  LET first == CHOOSE q \in 1..p :
                          /\ stdout[q].by = stdout[p].by
                          /\ \A m \in 1..(q - 1) : stdout[m].by # stdout[p].by
                  IN  stdout[p].line = PrintedLines[p - first + 1]

C6_Witness ==
    /\ main_pc = "running"
    /\ \E t, u \in Trials :
          /\ t # u
          /\ trial[t].pc = "printing" /\ trial[t].line = 4
          /\ trial[u].pc = "pushed"
          /\ Len(stdout) = 3
          /\ \A p \in 1..Len(stdout) : stdout[p].by = TrialTask(t)

\* The number of trials whose elapsed time is e.
TrialsWithElapsed(e) == Cardinality({t \in Trials : trial[t].elapsed = e})

Occurrences(seq, e) == Cardinality({p \in 1..Len(seq) : seq[p] = e})

RECURSIVE SumOfElapsed(_)
SumOfElapsed(S) ==
    IF S = {} THEN 0
    ELSE LET t == CHOOSE x \in S : TRUE
         IN  trial[t].elapsed + SumOfElapsed(S \ {t})

\* C7: once for_each has returned normally every trial has finished and
\* trial_results holds exactly the T elapsed times, one per trial; the mean
\* main prints is their sum over T.
C7_MeanOverAllTrials ==
    main_pc \in {"joined", "exited"} =>
        /\ \A t \in Trials : trial[t].pc = "done"
        /\ Len(trial_results) = args.trials
        /\ \A e \in Elapsed : Occurrences(trial_results, e) = TrialsWithElapsed(e)
        /\ main_pc = "exited" =>
              average = [sum |-> SumOfElapsed(Trials), count |-> args.trials]

C7_Witness ==
    /\ main_pc = "exited"
    /\ args.trials = MaxTrials
    /\ trial_results[1] # trial[0].elapsed
    /\ stdout[1].by = TrialTask(0)
    /\ average.sum > args.trials

====
